---- MODULE Spec2Model ----
(***************************************************************************)
(* The weather notification job of isaacery02/weatheralertimage.            *)
(*                                                                         *)
(* Two entry points are modelled:                                          *)
(*   WeatherAlert  (src/function_app.py)     OpenWeather "one-call" flow   *)
(*   main          (src/weather_notifier.py) AccuWeather two-step flow     *)
(*                                                                         *)
(* One run of an entry point is a behaviour: the environment is read,      *)
(* the provider is queried, the report is rendered day by day (one icon    *)
(* request at a time) and the email is handed to the sender.  Every HTTP   *)
(* response and the SMTP outcome are inputs, drawn from small sets.        *)
(***************************************************************************)
EXTENDS Integers, Sequences, FiniteSets, TLC

VARIABLES
    entry,          \* which entry point runs: "WeatherAlert" or "main"
    env,            \* the process environment (os.getenv)
    pc,             \* position of the run
    outcome,        \* how the run ended ("" while running)
    http,           \* the HTTP requests issued so far, in order
    forecast_days,  \* main: int(FORECAST_DAYS)
    lookup,         \* main: the answer of the location search
    location_key,   \* main: result of get_accuweather_location_key
    response,       \* the forecast response received from the provider
    forecast_data,  \* the adapter's result (weekly_data / forecast_data)
    i,              \* index of the next day of the icon loop
    fetched_icons,  \* main: cache icon_code_str -> bytes or None
    icon_log,       \* the answers of the icon endpoint: day, icon reference, answer
    email_images,   \* list of (bytes, content-id)
    html,           \* the sections appended to html_content, in order
    sends,          \* calls of send_email_with_images
    smtp,           \* SMTP sessions opened by send_email_with_images
    log,            \* the warnings and errors logged so far, in order
    degrees,        \* the argument of a call of get_wind_direction
    wind_direction  \* what get_wind_direction returned ("" before the call)

vars == <<entry, env, pc, outcome, http, forecast_days, lookup, location_key, response,
          forecast_data, i, fetched_icons, icon_log, email_images, html, sends, smtp,
          log, degrees, wind_direction>>

-----------------------------------------------------------------------------
(* Bounds *)

\* longest list of days in a provider response of a run
MaxDays == 3
\* icon codes 1..MaxIcon occur in provider responses
MaxIcon == 2

-----------------------------------------------------------------------------
(* Python values *)

\* None, for values that are otherwise strings
None == "<None>"
\* a missing key / None, for values that are otherwise non-negative integers
Absent == -1

\* `if value` / `not value` on an Optional[str] or Optional[bytes]
Truthy(v) == v # None /\ v # ""

SeqsUpTo(S, n) == UNION {[1..k -> S] : k \in 0..n}

\* a degree value: None, a number (in hundredths of a degree) or a string
NoDegrees == [kind |-> "None", value |-> 0]

\* one record of the log: logging.warning(...) / logging.error(...), named by
\* the fixed start of its message (logging.info is left out)
Warning(m) == [level |-> "warning", msg |-> m]
Error(m) == [level |-> "error", msg |-> m]

-----------------------------------------------------------------------------
(* Configuration *)

\* float(s) succeeds on these strings of the model and raises ValueError on the others
FloatLiterals == {"51.5", "-0.12"}

\* int(s) succeeds on these strings of the model (with this value) and raises
\* ValueError on the others
IntLiterals == ("0" :> 0) @@ ("1" :> 1) @@ ("3" :> 3) @@ ("5" :> 5) @@ ("16" :> 16)

float_ok(s) == s \in FloatLiterals
int_ok(s) == s \in DOMAIN IntLiterals

RequiredNames == {"API_KEY", "GMAIL_USER", "GMAIL_PASSWORD", "TO_EMAIL", "LATITUDE", "LONGITUDE"}

\* the environments of the model
EnvSet ==
    [API_KEY : {None, "", "key"},
     GMAIL_USER : {None, "", "me@gmail.com"},
     GMAIL_PASSWORD : {None, "", "secret"},
     TO_EMAIL : {None, "", "you@example.com"},
     LATITUDE : {None, "", "abc", "51.5"},
     LONGITUDE : {None, "", "abc", "-0.12"},
     FORECAST_DAYS : {None, "abc", "0", "1", "3", "16"}]

\* a variant of missing_vars that forgets the recipient address
missing_vars_no_recipient(e) == {n \in RequiredNames \ {"TO_EMAIL"} : ~Truthy(e[n])}

\* missing_vars = [name for name, value in required_vars.items() if not value]
missing_vars(e) == {n \in RequiredNames : ~Truthy(e[n])}

\* os.getenv("FORECAST_DAYS", "5")
forecast_days_raw(e) == IF e.FORECAST_DAYS = None THEN "5" ELSE e.FORECAST_DAYS

-----------------------------------------------------------------------------
(* Provider responses *)

\* the statuses of an HTTP exchange: a 2xx answer, a non-2xx answer
\* (raise_for_status raises HTTPError) or no answer (ConnectionError, Timeout);
\* the last two are requests.exceptions.RequestException
HttpStatus == {"ok", "http_error", "network_error"}

SecondsPerDay == 86400
\* epoch seconds of the model: noon of 1970-01-01 and of 1970-01-02
RunEpochs == {43200, 129600}

\* OpenWeather icon codes ("01d", "02d", ...)
OWIcons == {"0" \o ToString(k) \o "d" : k \in 1..MaxIcon}
\* AccuWeather icon numbers
AWIcons == 1..MaxIcon

\* one entry of the OpenWeather `daily` array; a missing key is None / Absent
OWDays(epochs, humidities, sunrises, sunsets) ==
    [dt : epochs, icon : OWIcons \cup {None}, humidity : humidities,
     sunrise : sunrises, sunset : sunsets]

\* one entry of the AccuWeather `DailyForecasts` array
AWDays(epochs, rises, sets) ==
    [EpochDate : epochs, Icon : AWIcons \cup {Absent}, Rise : rises, Set : sets]

\* answers of the forecast request: the expected body, JSON without the
\* expected key, no JSON at all, and a list of days whose entries are numbers
ForecastResponses(DaySet, n) ==
    [status : {"ok"}, body : {"days"}, days : SeqsUpTo(DaySet, n)]
    \cup [status : HttpStatus, body : {"missing_key"}, days : {<<>>}]
    \cup [status : {"ok"}, body : {"bad_json", "non_dict_day"}, days : {<<>>}]

\* ISO-8601 strings (AccuWeather Sun.Rise / Sun.Set) that fromisoformat parses,
\* with what strftime("%I:%M%p %Z") makes of them
IsoLiterals ==
    ("2024-05-01T05:30:00+01:00" :> "05:30AM UTC+01:00")
    @@ ("2024-05-01T20:15:00+01:00" :> "08:15PM UTC+01:00")

OWRunResponses ==
    ForecastResponses(OWDays(RunEpochs \cup {Absent}, {"50", None}, {19800}, {70200}), MaxDays)
AWRunResponses ==
    ForecastResponses(AWDays(RunEpochs \cup {Absent}, {"2024-05-01T05:30:00+01:00"},
                             {"2024-05-01T20:15:00+01:00"}), MaxDays)

\* answers of the location search
LocationResponses ==
    [status : {"ok"}, body : {"dict"}, Key : {None, "", "K1"}]
    \cup [status : {"ok"}, body : {"list", "bad_json"}, Key : {None}]
    \cup [status : {"http_error"}, body : {"dict"}, Key : {"K1"}]
    \cup [status : {"network_error"}, body : {"none"}, Key : {None}]

\* answers of the icon endpoint: an image, an empty body, 404 (a request
\* without answer raises RequestException as the 404 does)
IconResponses ==
    {[status |-> "ok", content |-> "PNG"],
     [status |-> "ok", content |-> ""],
     [status |-> "http_error", content |-> "Not Found"]}

-----------------------------------------------------------------------------
(* Formatting *)

\* str.zfill(2)
zfill2(s) == IF Len(s) < 2 THEN "0" \o s ELSE s

\* datetime.fromtimestamp(t, tz=utc).strftime("%Y-%m-%d"), for t in January 1970
strftime_date(t) == "1970-01-" \o zfill2(ToString(t \div SecondsPerDay + 1))

\* datetime.fromtimestamp(t, tz=utc).strftime("%I:%M%p %Z")
strftime_time(t) ==
    LET h24 == (t \div 3600) % 24
        m == (t \div 60) % 60
        h12 == IF h24 % 12 = 0 THEN 12 ELSE h24 % 12
    IN  zfill2(ToString(h12)) \o ":" \o zfill2(ToString(m))
        \o (IF h24 < 12 THEN "AM" ELSE "PM") \o " UTC"

-----------------------------------------------------------------------------
(* Adapter results: a list of forecasts, None, or an exception that escapes *)

ListResult(s) == [tag |-> "list", days |-> s]
NoneResult == [tag |-> "None", days |-> <<>>]
RaiseResult == [tag |-> "raise", days |-> <<>>]

\* a variant of result_truthy that only tests for None
result_not_none(r) == r.tag = "list"

\* `if weekly_data:` / `if forecast_data:`
result_truthy(r) == r.tag = "list" /\ r.days # <<>>

-----------------------------------------------------------------------------
(* get_weekly_weather (OpenWeather) *)

\* the keys of a day that are read with daily_data[...]: a missing one raises KeyError
ow_day_complete(d) ==
    /\ d.icon # None
    /\ d.humidity # None
    /\ d.sunrise # Absent
    /\ d.sunset # Absent
    /\ d.dt # Absent

\* the dictionary built for one day of data["daily"][1:8]
ow_forecast(d) ==
    [icon |-> d.icon,
     humidity |-> d.humidity,
     sunrise |-> strftime_time(d.sunrise),
     sunset |-> strftime_time(d.sunset),
     date_obj |-> d.dt,
     date_str |-> strftime_date(d.dt)]

\* a variant of ow_slice that keeps today's entry and every later one
ow_slice_all(daily) == daily

\* data["daily"][1:8]
ow_slice(daily) ==
    SubSeq(daily, 2, IF Len(daily) < 8 THEN Len(daily) ELSE 8)

get_weekly_weather(resp) ==
    IF resp.status # "ok" THEN NoneResult            \* RequestException
    ELSE IF resp.body # "days" THEN NoneResult       \* ValueError, KeyError, TypeError
    ELSE LET slice == ow_slice(resp.days)
         IN  IF \E k \in 1..Len(slice) : ~ow_day_complete(slice[k])
             THEN NoneResult                         \* KeyError
             ELSE ListResult([k \in 1..Len(slice) |-> ow_forecast(slice[k])])

\* what get_weekly_weather logs: a failed request (with requests >= 2.27 a
\* body that is no JSON raises a RequestException too) or a failed parse
get_weekly_weather_log(resp) ==
    IF resp.status # "ok" \/ resp.body = "bad_json"
    THEN <<Error("Error fetching weekly weather data")>>
    ELSE IF get_weekly_weather(resp).tag = "None"
    THEN <<Error("Error parsing weekly weather data")>>
    ELSE <<>>

-----------------------------------------------------------------------------
(* get_accuweather_location_key, get_accuweather_forecast (AccuWeather) *)

\* a variant of get_accuweather_location_key that does not look at the status
location_key_ignoring_status(resp) ==
    IF resp.body = "dict" THEN resp.Key ELSE None

get_accuweather_location_key(resp) ==
    IF resp.status # "ok" THEN None                  \* RequestException
    ELSE IF resp.body = "bad_json" THEN None         \* JSONDecodeError
    ELSE IF resp.body = "dict" /\ resp.Key # None THEN resp.Key
    ELSE None

\* what get_accuweather_location_key logs; the text of the response is
\* logged when the exception carries a response (HTTPError)
get_accuweather_location_key_log(resp) ==
    IF resp.status = "http_error"
    THEN <<Error("Error fetching AccuWeather location key"),
           Error("AccuWeather Location API Response")>>
    ELSE IF resp.status = "network_error" \/ resp.body = "bad_json"
    THEN <<Error("Error fetching AccuWeather location key")>>
    ELSE IF resp.body = "dict" /\ resp.Key # None THEN <<>>
    ELSE <<Error("Could not find Location Key in AccuWeather response")>>

\* a variant of supported_days that takes the nearest supported day count
supported_days_nearest(days) ==
    IF days <= 3 THEN 1 ELSE IF days <= 7 THEN 5 ELSE IF days <= 12 THEN 10 ELSE 15

\* if days not in [1, 5, 10, 15]: days = 5
supported_days(days) == IF days \in {1, 5, 10, 15} THEN days ELSE 5

\* datetime.fromisoformat(v) if v else None: does not raise
sun_parses(v) == v = None \/ v \in DOMAIN IsoLiterals

\* sunrise_formatted / sunset_formatted: one try block parses both values
sun_formatted(d) ==
    LET fmt(v) == IF v = None THEN "N/A" ELSE IsoLiterals[v]
    IN  IF sun_parses(d.Rise) /\ sun_parses(d.Set)
        THEN [sunrise |-> fmt(d.Rise), sunset |-> fmt(d.Set)]
        ELSE [sunrise |-> "N/A", sunset |-> "N/A"]  \* ValueError, TypeError

\* the dictionary built for one entry of data["DailyForecasts"];
\* `if epoch_date` takes a missing EpochDate for no date
aw_forecast(d) ==
    [icon |-> d.Icon,
     humidity |-> "N/A",
     sunrise |-> sun_formatted(d).sunrise,
     sunset |-> sun_formatted(d).sunset,
     date_obj |-> d.EpochDate,
     date_str |-> IF d.EpochDate = Absent THEN "N/A" ELSE strftime_date(d.EpochDate)]

\* key=lambda x: x["date_obj"] or datetime.min: no date sorts before every date
sort_key(f) == f.date_obj

\* list.sort is stable: an entry goes after the entries whose key is not greater
insert_sorted(s, x) ==
    LET k == Cardinality({j \in 1..Len(s) : sort_key(s[j]) <= sort_key(x)})
    IN  SubSeq(s, 1, k) \o <<x>> \o SubSeq(s, k + 1, Len(s))

RECURSIVE sort_from(_, _, _)
sort_from(done, s, k) ==
    IF k > Len(s) THEN done ELSE sort_from(insert_sorted(done, s[k]), s, k + 1)

\* weekly_forecast.sort(key=...)
sort_by_date(s) == sort_from(<<>>, s, 1)

\* weekly_forecast[:days]
take(s, n) == SubSeq(s, 1, IF Len(s) < n THEN Len(s) ELSE n)

get_accuweather_forecast(resp, days) ==
    IF resp.status # "ok" THEN NoneResult            \* RequestException
    ELSE IF resp.body \in {"bad_json", "missing_key"} THEN NoneResult
    ELSE IF resp.body = "non_dict_day" THEN RaiseResult   \* AttributeError is not caught
    ELSE ListResult(take(sort_by_date([k \in 1..Len(resp.days) |-> aw_forecast(resp.days[k])]),
                         supported_days(days)))

\* the warnings of the days from the k-th on whose sunrise or sunset does not parse
RECURSIVE sun_warnings(_, _)
sun_warnings(days, k) ==
    IF k > Len(days) THEN <<>>
    ELSE (IF sun_parses(days[k].Rise) /\ sun_parses(days[k].Set) THEN <<>>
          ELSE <<Warning("Could not parse sunrise/sunset")>>)
         \o sun_warnings(days, k + 1)

\* what get_accuweather_forecast logs
get_accuweather_forecast_log(resp, days) ==
    (IF days \in {1, 5, 10, 15} THEN <<>>
     ELSE <<Warning("Unsupported number of forecast days requested")>>)
    \o (IF resp.status = "http_error"
        THEN <<Error("Error fetching AccuWeather forecast data"),
               Error("AccuWeather Forecast API Response")>>
        ELSE IF resp.status = "network_error" \/ resp.body = "bad_json"
        THEN <<Error("Error fetching AccuWeather forecast data")>>
        ELSE IF resp.body = "missing_key"
        THEN <<Error("AccuWeather forecast response is missing 'DailyForecasts'.")>>
        ELSE IF resp.body = "non_dict_day" THEN <<>>
        ELSE sun_warnings(resp.days, 1))

-----------------------------------------------------------------------------
(* The run *)

Init ==
    /\ entry \in {"WeatherAlert", "main"}
    /\ env \in EnvSet
    /\ entry = "WeatherAlert" => env.FORECAST_DAYS = None   \* WeatherAlert does not read it
    /\ pc = "start"
    /\ outcome = ""
    /\ http = <<>>
    /\ forecast_days = 0
    /\ lookup = [status |-> "none", body |-> "none", Key |-> None]
    /\ location_key = None
    /\ response = [status |-> "none", body |-> "none", days |-> <<>>]
    /\ forecast_data = NoneResult
    /\ i = 0
    /\ fetched_icons = <<>>
    /\ icon_log = <<>>
    /\ email_images = <<>>
    /\ html = <<>>
    /\ sends = 0
    /\ smtp = 0
    /\ log = <<>>
    /\ degrees = NoDegrees
    /\ wind_direction = ""

\* the run ends at a `return` (or at the end of the function) with what it logged
Return(o) ==
    /\ pc' = "done"
    /\ outcome' = o

\* an exception leaves the entry point
Raise(e) ==
    /\ pc' = "crashed"
    /\ outcome' = e

\* WeatherAlert up to the forecast request: the environment is read and validated
WeatherAlert_config ==
    /\ pc = "start"
    /\ entry = "WeatherAlert"
    /\ IF missing_vars(env) # {}
       THEN /\ Return("SkippedMissingConfig")
            /\ log' = Append(log, Error("Missing environment variables"))
       ELSE IF ~float_ok(env.LATITUDE) \/ ~float_ok(env.LONGITUDE)
       THEN /\ Return("SkippedInvalidConfig")
            /\ log' = Append(log, Error("LATITUDE and LONGITUDE must be numeric values."))
       ELSE pc' = "forecast" /\ outcome' = outcome /\ log' = log
    /\ UNCHANGED <<entry, env, degrees, wind_direction, http, forecast_days, lookup, location_key, response, forecast_data,
                   i, fetched_icons, icon_log, email_images, html, sends, smtp>>

\* main up to the location request: int(os.getenv("FORECAST_DAYS", "5")) is
\* evaluated while the environment is read, before anything is validated
main_config ==
    /\ pc = "start"
    /\ entry = "main"
    /\ IF ~int_ok(forecast_days_raw(env))
       THEN Raise("ValueError") /\ forecast_days' = forecast_days /\ log' = log
       ELSE /\ forecast_days' = IntLiterals[forecast_days_raw(env)]
            /\ IF missing_vars(env) # {}
               THEN /\ Return("SkippedMissingConfig")
                    /\ log' = log \o <<Error("Missing required environment variables"),
                                       Error("Script cannot continue without configuration.")>>
               ELSE IF \/ ~float_ok(env.LATITUDE)
                       \/ ~float_ok(env.LONGITUDE)
                       \/ ~(1 <= forecast_days' /\ forecast_days' <= 15)
               THEN /\ Return("SkippedInvalidConfig")
                    /\ log' = Append(log, Error("Configuration error"))
               ELSE pc' = "lookup" /\ outcome' = outcome /\ log' = log
    /\ UNCHANGED <<entry, env, degrees, wind_direction, http, lookup, location_key, response, forecast_data,
                   i, fetched_icons, icon_log, email_images, html, sends, smtp>>

\* `if not location_key: return`
key_found(key) == Truthy(key)

\* main: the location search and the test of its result
main_lookup ==
    /\ pc = "lookup"
    /\ \E resp \in LocationResponses :
        /\ http' = Append(http, [kind |-> "location",
                                 url |-> "/locations/v1/cities/geoposition/search?q="
                                         \o env.LATITUDE \o "," \o env.LONGITUDE])
        /\ lookup' = resp
        /\ location_key' = get_accuweather_location_key(resp)
        /\ IF key_found(location_key')
           THEN /\ pc' = "forecast" /\ outcome' = outcome
                /\ log' = log \o get_accuweather_location_key_log(resp)
           ELSE /\ Return("SkippedFetchFailure")
                /\ log' = log \o get_accuweather_location_key_log(resp)
                           \o <<Error("Failed to get AccuWeather Location Key. Cannot proceed.")>>
        /\ UNCHANGED <<entry, env, degrees, wind_direction, forecast_days, response, forecast_data,
                       i, fetched_icons, icon_log, email_images, html, sends, smtp>>

\* the adapter's result decides how the run goes on
after_fetch(result) ==
    IF result.tag = "raise" THEN Raise("AttributeError")
    ELSE IF result_truthy(result) THEN pc' = "icons" /\ outcome' = outcome
    ELSE Return("SkippedFetchFailure")

\* the error logged in the else branch of `if forecast_data:` / `if weekly_data:`
after_fetch_log(result, m) ==
    IF result.tag # "raise" /\ ~result_truthy(result) THEN <<Error(m)>> ELSE <<>>

\* main: the forecast request, get_accuweather_forecast and `if forecast_data:`
main_forecast ==
    /\ pc = "forecast"
    /\ entry = "main"
    /\ \E resp \in AWRunResponses :
        /\ http' = Append(http, [kind |-> "forecast",
                                 url |-> "/forecasts/v1/daily/"
                                         \o ToString(supported_days(forecast_days))
                                         \o "day/" \o location_key])
        /\ response' = resp
        /\ forecast_data' = get_accuweather_forecast(resp, forecast_days)
        /\ after_fetch(forecast_data')
        /\ log' = log \o get_accuweather_forecast_log(resp, forecast_days)
                   \o after_fetch_log(forecast_data',
                          "Failed to retrieve AccuWeather forecast data. Email not sent.")
        /\ i' = 1
        /\ UNCHANGED <<entry, env, degrees, wind_direction, forecast_days, lookup, location_key,
                       fetched_icons, icon_log, email_images, html, sends, smtp>>

\* WeatherAlert: the forecast request, get_weekly_weather and `if weekly_data:`
WeatherAlert_forecast ==
    /\ pc = "forecast"
    /\ entry = "WeatherAlert"
    /\ \E resp \in OWRunResponses :
        /\ http' = Append(http, [kind |-> "forecast",
                                 url |-> "/data/3.0/onecall?lat=" \o env.LATITUDE
                                         \o "&lon=" \o env.LONGITUDE])
        /\ response' = resp
        /\ forecast_data' = get_weekly_weather(resp)
        /\ after_fetch(forecast_data')
        /\ log' = log \o get_weekly_weather_log(resp)
                   \o after_fetch_log(forecast_data',
                          "Failed to retrieve weekly weather data. Email not sent.")
        /\ i' = 1
        /\ UNCHANGED <<entry, env, degrees, wind_direction, forecast_days, lookup, location_key,
                       fetched_icons, icon_log, email_images, html, sends, smtp>>

-----------------------------------------------------------------------------
(* Rendering *)

\* one entry of the summary strip or one day-forecast section: the day it is
\* for and the content-id its <img src="cid:..."> names ("" for the text fallback)
Section(kind, f, cid) == [section |-> kind, date_str |-> f.date_str, cid |-> cid]

\* any(cid == image_cid for _, cid in email_images)
has_cid(images, cid) == \E k \in 1..Len(images) : images[k].cid = cid

\* icon_code_str = str(icon_code).zfill(2)
icon_code_str(f) == zfill2(ToString(f.icon))

\* a variant of main_cid that leaves the date out of the content-id
main_cid_no_date(f) == "summary_icon_" \o icon_code_str(f)

\* image_cid = f"summary_icon_{date_str}_{icon_code_str}"
main_cid(f) == "summary_icon_" \o f.date_str \o "_" \o icon_code_str(f)

\* image_cid = f"icon_{day_forecast['date_str']}_{icon_code}"
WeatherAlert_cid(f) == "icon_" \o f.date_str \o "_" \o f.icon

\* fetched_icons.get(icon_code_str)
cache_get(cache, c) == IF c \in DOMAIN cache THEN cache[c] ELSE None

\* a variant of cache_hit that never finds an icon in the cache
cache_hit_never(cache, c) == FALSE

\* `icon_code_str not in fetched_icons`, negated
cache_hit(cache, c) == c \in DOMAIN cache

\* requests.get(icon_url); raise_for_status(): the bytes, or None for a RequestException
icon_bytes(r) == IF r.status = "ok" THEN r.content ELSE None

\* main: one pass of the summary loop, for day i of forecast_data
main_summary_day ==
    /\ pc = "icons"
    /\ entry = "main"
    /\ i <= Len(forecast_data.days)
    /\ \E r \in IconResponses :
        /\ LET f == forecast_data.days[i]
               c == icon_code_str(f)
               cid == main_cid(f)
           IN  IF f.icon = Absent
               THEN /\ html' = Append(html, Section("summary", f, ""))
                    /\ UNCHANGED <<http, fetched_icons, icon_log, email_images, log>>
               ELSE /\ IF ~cache_hit(fetched_icons, c)
                       THEN /\ http' = Append(http, [kind |-> "icon", url |-> c \o "-s.png"])
                            /\ icon_log' = Append(icon_log, [day |-> i, ref |-> c, answer |-> r])
                            /\ fetched_icons' = (c :> icon_bytes(r)) @@ fetched_icons
                            /\ email_images' =
                                   IF icon_bytes(r) # None
                                   THEN Append(email_images, [bytes |-> icon_bytes(r), cid |-> cid])
                                   ELSE email_images
                            /\ log' = IF icon_bytes(r) # None THEN log
                                      ELSE Append(log, Warning("Could not fetch summary AccuWeather icon"))
                       ELSE /\ email_images' =
                                   IF Truthy(fetched_icons[c]) /\ ~has_cid(email_images, cid)
                                   THEN Append(email_images, [bytes |-> fetched_icons[c], cid |-> cid])
                                   ELSE email_images
                            /\ UNCHANGED <<http, fetched_icons, icon_log, log>>
                    /\ html' = Append(html, Section("summary", f,
                                   IF Truthy(cache_get(fetched_icons', c)) THEN cid ELSE ""))
        /\ i' = i + 1
        /\ UNCHANGED <<entry, env, degrees, wind_direction, pc, outcome, forecast_days, lookup, location_key, response,
                       forecast_data, sends, smtp>>

\* the img_tag of the detail section of one day
main_detail_section(cache, f) ==
    IF f.icon = Absent THEN Section("detail", f, "")
    ELSE IF Truthy(cache_get(cache, icon_code_str(f))) THEN Section("detail", f, main_cid(f))
    ELSE Section("detail", f, "")

\* main: the loop of the detail sections, after the summary loop
main_detail ==
    /\ pc = "icons"
    /\ entry = "main"
    /\ i > Len(forecast_data.days)
    /\ html' = html \o [k \in 1..Len(forecast_data.days) |->
                           main_detail_section(fetched_icons, forecast_data.days[k])]
    /\ pc' = "send"
    /\ UNCHANGED <<entry, env, degrees, wind_direction, log, outcome, http, forecast_days, lookup, location_key, response,
                   forecast_data, i, fetched_icons, icon_log, email_images, sends, smtp>>

\* WeatherAlert: one pass of the loop over weekly_data; after the last day
\* the function goes on to send
WeatherAlert_day ==
    /\ pc = "icons"
    /\ entry = "WeatherAlert"
    /\ i <= Len(forecast_data.days)
    /\ \E r \in IconResponses :
        /\ LET f == forecast_data.days[i]
               cid == WeatherAlert_cid(f)
           IN  /\ http' = Append(http, [kind |-> "icon", url |-> f.icon \o "@2x.png"])
               /\ icon_log' = Append(icon_log, [day |-> i, ref |-> f.icon, answer |-> r])
               /\ IF icon_bytes(r) # None
                  THEN /\ email_images' = Append(email_images, [bytes |-> icon_bytes(r), cid |-> cid])
                       /\ html' = Append(html, Section("detail", f, cid))
                  ELSE /\ email_images' = email_images
                       /\ html' = Append(html, Section("detail", f, ""))
               /\ log' = IF icon_bytes(r) # None THEN log
                         ELSE Append(log, Warning("Could not fetch weather icon"))
        /\ i' = i + 1
        /\ pc' = IF i = Len(forecast_data.days) THEN "send" ELSE pc
        /\ UNCHANGED <<entry, env, degrees, wind_direction, outcome, forecast_days, lookup, location_key, response,
                       forecast_data, fetched_icons, sends, smtp>>

-----------------------------------------------------------------------------
(* send_email_with_images *)

\* what the SMTP session does: delivery, SMTPAuthenticationError, another
\* SMTPException, another exception (a socket error)
SmtpOutcomes == {"sent", "auth_error", "smtp_error", "other_error"}

\* MIMEImage(img_data) guesses the image type from the bytes and raises
\* TypeError when it cannot
mime_ok(images) == \A k \in 1..Len(images) : images[k].bytes = "PNG"

\* the exception that ends the try block of send_email_with_images, None
\* when the message is delivered
send_exception(images, o) ==
    IF ~mime_ok(images) THEN "TypeError"
    ELSE IF o = "auth_error" THEN "SMTPAuthenticationError"
    ELSE IF o = "smtp_error" THEN "SMTPException"
    ELSE IF o = "other_error" THEN "OSError"
    ELSE None

\* a variant of except_clause without the final `except Exception`
except_clause_smtp_only(e, x) ==
    IF x = "SMTPAuthenticationError" /\ e = "main" THEN "SMTPAuthenticationError"
    ELSE IF x \in {"SMTPAuthenticationError", "SMTPException"} THEN "SMTPException"
    ELSE "none"

\* the except clause of send_email_with_images that handles exception x in
\* entry point e: only main has a clause for SMTPAuthenticationError (a
\* subclass of SMTPException); `except Exception` takes the rest
except_clause(e, x) ==
    IF x = "SMTPAuthenticationError" /\ e = "main" THEN "SMTPAuthenticationError"
    ELSE IF x \in {"SMTPAuthenticationError", "SMTPException"} THEN "SMTPException"
    ELSE "Exception"

\* what the except clause logs
send_error(clause) ==
    IF clause = "SMTPAuthenticationError"
    THEN Error("Error sending email: SMTP Authentication failed")
    ELSE IF clause = "SMTPException" THEN Error("Error sending email: SMTP error")
    ELSE Error("Error sending email: Unexpected error")

\* the call of send_email_with_images and the end of the run: the SMTP
\* session is opened once the message is built, an exception is handled by
\* its except clause, and nothing follows the call but the last logging.info
send_email_with_images ==
    /\ pc = "send"
    /\ \E o \in SmtpOutcomes :
        LET x == send_exception(email_images, o)
        IN  /\ sends' = sends + 1
            /\ smtp' = IF mime_ok(email_images) THEN smtp + 1 ELSE smtp
            /\ IF x = None THEN Return("Sent") /\ log' = log
               ELSE IF except_clause(entry, x) = "none" THEN Raise(x) /\ log' = log
               ELSE /\ Return("SendFailed")
                    /\ log' = Append(log, send_error(except_clause(entry, x)))
            /\ UNCHANGED <<entry, env, degrees, wind_direction, http, forecast_days, lookup,
                           location_key, response, forecast_data, i, fetched_icons, icon_log,
                           email_images, html>>

-----------------------------------------------------------------------------

Next ==
    \/ WeatherAlert_config
    \/ main_config
    \/ main_lookup
    \/ main_forecast
    \/ WeatherAlert_forecast
    \/ main_summary_day
    \/ main_detail
    \/ WeatherAlert_day
    \/ send_email_with_images

Spec == Init /\ [][Next]_vars

-----------------------------------------------------------------------------
(* The adapters on their own, on longer payloads *)

\* longest list of days in a payload handed to an adapter
MaxAdapterDays == 9

\* day k of a well-formed OpenWeather payload: noon of the k-th day after the epoch
OWBaseDay(k) ==
    [dt |-> k * SecondsPerDay + 43200,
     icon |-> "0" \o ToString((k % MaxIcon) + 1) \o "d",
     humidity |-> "50",
     sunrise |-> 19800,
     sunset |-> 70200]

\* day k of a well-formed AccuWeather payload
AWBaseDay(k) ==
    [EpochDate |-> k * SecondsPerDay + 43200,
     Icon |-> (k % MaxIcon) + 1,
     Rise |-> "2024-05-01T05:30:00+01:00",
     Set |-> "2024-05-01T20:15:00+01:00"]

\* what may be wrong with a payload of n days: nothing, days a and b out of
\* order, day b on the date of day a, day a without a date, day a without
\* humidity, day a without sunrise, day a with a sunrise or a sunset that is
\* no ISO-8601 string
Perturbations(n) ==
    {[kind |-> "none", a |-> 0, b |-> 0]}
    \cup [kind : {"swap", "same_date"}, a : 1..n, b : 1..n]
    \cup [kind : {"no_date", "no_humidity", "no_sunrise", "bad_sunrise", "bad_sunset"},
          a : 1..n, b : {0}]

OWPerturb(days, p) ==
    [k \in 1..Len(days) |->
        IF p.kind = "swap" /\ k = p.a THEN days[p.b]
        ELSE IF p.kind = "swap" /\ k = p.b THEN days[p.a]
        ELSE IF p.kind = "same_date" /\ k = p.b /\ p.a # p.b
             THEN [days[k] EXCEPT !.dt = days[p.a].dt + 3600]
        ELSE IF p.kind = "no_date" /\ k = p.a THEN [days[k] EXCEPT !.dt = Absent]
        ELSE IF p.kind = "no_humidity" /\ k = p.a THEN [days[k] EXCEPT !.humidity = None]
        ELSE IF p.kind = "no_sunrise" /\ k = p.a THEN [days[k] EXCEPT !.sunrise = Absent]
        ELSE days[k]]

AWPerturb(days, p) ==
    [k \in 1..Len(days) |->
        IF p.kind = "swap" /\ k = p.a THEN days[p.b]
        ELSE IF p.kind = "swap" /\ k = p.b THEN days[p.a]
        ELSE IF p.kind = "same_date" /\ k = p.b /\ p.a # p.b
             THEN [days[k] EXCEPT !.EpochDate = days[p.a].EpochDate + 3600]
        ELSE IF p.kind = "no_date" /\ k = p.a THEN [days[k] EXCEPT !.EpochDate = Absent]
        ELSE IF p.kind = "no_sunrise" /\ k = p.a THEN [days[k] EXCEPT !.Rise = None]
        ELSE IF p.kind = "bad_sunrise" /\ k = p.a THEN [days[k] EXCEPT !.Rise = "not-a-time"]
        ELSE IF p.kind = "bad_sunset" /\ k = p.a THEN [days[k] EXCEPT !.Set = "not-a-time"]
        ELSE days[k]]

OWAdapterResponses ==
    {[status |-> "ok", body |-> "days", days |-> OWPerturb([k \in 1..n |-> OWBaseDay(k)], p)] :
        <<n, p>> \in UNION {{n} \X Perturbations(n) : n \in 0..MaxAdapterDays}}

AWAdapterResponses ==
    {[status |-> "ok", body |-> "days", days |-> AWPerturb([k \in 1..n |-> AWBaseDay(k)], p)] :
        <<n, p>> \in UNION {{n} \X Perturbations(n) : n \in 0..MaxAdapterDays}}

\* the day counts main can pass: 1 <= forecast_days <= 15
AdapterDayCounts == {1, 2, 3, 5, 10, 14}

InitAdapter ==
    /\ entry \in {"WeatherAlert", "main"}
    /\ env = [API_KEY |-> "key", GMAIL_USER |-> "me@gmail.com", GMAIL_PASSWORD |-> "secret",
              TO_EMAIL |-> "you@example.com", LATITUDE |-> "51.5", LONGITUDE |-> "-0.12",
              FORECAST_DAYS |-> None]
    /\ pc = "adapter"
    /\ outcome = ""
    /\ http = <<>>
    /\ \/ entry = "WeatherAlert" /\ forecast_days = 0 /\ response \in OWAdapterResponses
       \/ entry = "main" /\ forecast_days \in AdapterDayCounts /\ response \in AWAdapterResponses
    /\ lookup = [status |-> "ok", body |-> "dict", Key |-> "K1"]
    /\ location_key = "K1"
    /\ forecast_data = NoneResult
    /\ i = 0
    /\ fetched_icons = <<>>
    /\ icon_log = <<>>
    /\ email_images = <<>>
    /\ html = <<>>
    /\ sends = 0
    /\ smtp = 0
    /\ log = <<>>
    /\ degrees = NoDegrees
    /\ wind_direction = ""

\* get_weekly_weather applied to the response
call_get_weekly_weather ==
    /\ pc = "adapter"
    /\ entry = "WeatherAlert"
    /\ http' = Append(http, [kind |-> "forecast",
                             url |-> "/data/3.0/onecall?lat=" \o env.LATITUDE
                                     \o "&lon=" \o env.LONGITUDE])
    /\ forecast_data' = get_weekly_weather(response)
    /\ log' = log \o get_weekly_weather_log(response)
    /\ pc' = "adapted"
    /\ UNCHANGED <<entry, env, degrees, wind_direction, outcome, forecast_days, lookup, location_key, response,
                   i, fetched_icons, icon_log, email_images, html, sends, smtp>>

\* get_accuweather_forecast applied to the response and the day count
call_get_accuweather_forecast ==
    /\ pc = "adapter"
    /\ entry = "main"
    /\ http' = Append(http, [kind |-> "forecast",
                             url |-> "/forecasts/v1/daily/"
                                     \o ToString(supported_days(forecast_days))
                                     \o "day/" \o location_key])
    /\ forecast_data' = get_accuweather_forecast(response, forecast_days)
    /\ log' = log \o get_accuweather_forecast_log(response, forecast_days)
    /\ pc' = "adapted"
    /\ UNCHANGED <<entry, env, degrees, wind_direction, outcome, forecast_days, lookup, location_key, response,
                   i, fetched_icons, icon_log, email_images, html, sends, smtp>>

NextAdapter ==
    \/ call_get_weekly_weather
    \/ call_get_accuweather_forecast

SpecAdapter == InitAdapter /\ [][NextAdapter]_vars

-----------------------------------------------------------------------------
(* get_wind_direction on its own *)

\* whole degrees from -MaxDegrees to MaxDegrees are passed to get_wind_direction
MaxDegrees == 405

directions ==
    <<"N", "NNE", "NE", "ENE", "E", "ESE", "SE", "SSE",
      "S", "SSW", "SW", "WSW", "W", "WNW", "NW", "NNW">>

\* a variant of int_trunc that rounds toward minus infinity
int_floor(n, d) == n \div d

\* int(n / d) for d > 0: int() truncates toward zero
int_trunc(n, d) == IF n >= 0 THEN n \div d ELSE -((-n) \div d)

\* directions[int((degrees + 11.25) / 22.5) % 16], degrees in hundredths
direction_of(v) == directions[(int_trunc(v + 1125, 2250) % 16) + 1]

\* get_wind_direction of entry point e's module: weather_notifier.py first
\* takes int(degrees), which truncates a float and parses a string;
\* function_app.py adds 11.25 to the value as it is (TypeError for a string)
get_wind_direction(e, deg) ==
    IF deg.kind = "None" THEN "N/A"
    ELSE IF deg.kind = "str"
    THEN IF e = "main" /\ int_ok(deg.value)
         THEN direction_of(100 * IntLiterals[deg.value])
         ELSE "N/A"
    ELSE IF e = "main" THEN direction_of(100 * int_trunc(deg.value, 100))
    ELSE direction_of(deg.value)

\* the degree values of the model: None, whole degrees, values between whole
\* degrees around the sector limits, and strings
WindInputs ==
    {NoDegrees}
    \cup [kind : {"number"}, value : {100 * d : d \in -MaxDegrees..MaxDegrees}]
    \cup [kind : {"number"}, value : {-3375, -1150, -1125, -50, 50, 1124, 1125, 1150, 3375, 34875}]
    \cup [kind : {"str"}, value : {"abc", "16"}]

InitWind ==
    /\ entry \in {"WeatherAlert", "main"}
    /\ env = [API_KEY |-> "key", GMAIL_USER |-> "me@gmail.com", GMAIL_PASSWORD |-> "secret",
              TO_EMAIL |-> "you@example.com", LATITUDE |-> "51.5", LONGITUDE |-> "-0.12",
              FORECAST_DAYS |-> None]
    /\ pc = "wind"
    /\ outcome = ""
    /\ http = <<>>
    /\ forecast_days = 0
    /\ lookup = [status |-> "none", body |-> "none", Key |-> None]
    /\ location_key = None
    /\ response = [status |-> "none", body |-> "none", days |-> <<>>]
    /\ forecast_data = NoneResult
    /\ i = 0
    /\ fetched_icons = <<>>
    /\ icon_log = <<>>
    /\ email_images = <<>>
    /\ html = <<>>
    /\ sends = 0
    /\ smtp = 0
    /\ log = <<>>
    /\ degrees \in WindInputs
    /\ wind_direction = ""

\* get_wind_direction applied to the degree value; the except clause logs a warning
call_get_wind_direction ==
    /\ pc = "wind"
    /\ wind_direction' = get_wind_direction(entry, degrees)
    /\ log' = IF degrees.kind = "str" /\ get_wind_direction(entry, degrees) = "N/A"
              THEN Append(log, Warning("Could not parse wind direction degrees"))
              ELSE log
    /\ pc' = "wind_done"
    /\ UNCHANGED <<entry, env, degrees, outcome, http, forecast_days, lookup, location_key,
                   response, forecast_data, i, fetched_icons, icon_log, email_images, html,
                   sends, smtp>>

NextWind == call_get_wind_direction

SpecWind == InitWind /\ [][NextWind]_vars

-----------------------------------------------------------------------------
(* Properties *)

IconRequests == {k \in 1..Len(http) : http[k].kind = "icon"}
ForecastRequests == {k \in 1..Len(http) : http[k].kind = "forecast"}

\* a required configuration value is missing or empty
ConfigMissing == \E n \in RequiredNames : env[n] = None \/ env[n] = ""

\* C1: in both entry points, when a required configuration value is missing
\* or empty the run ends without any HTTP request (location, forecast, icon)
\* and without a call of the email sender.
C1_MissingConfigNoRequestNoEmail ==
    ConfigMissing =>
        /\ http = <<>>
        /\ sends = 0
        /\ smtp = 0
        /\ pc \in {"start", "done", "crashed"}

\* main has ended for a missing recipient address, the other values being set
C1_Witness ==
    /\ entry = "main"
    /\ pc = "done"
    /\ outcome = "SkippedMissingConfig"
    /\ env.TO_EMAIL = None
    /\ \A n \in RequiredNames \ {"TO_EMAIL"} : Truthy(env[n])

\* a numeric configuration value does not parse or, for the day count, is out of range
NumericInvalid ==
    \/ env.LATITUDE \notin FloatLiterals
    \/ env.LONGITUDE \notin FloatLiterals
    \/ /\ entry = "main"
       /\ env.FORECAST_DAYS # None
       /\ \/ env.FORECAST_DAYS \notin DOMAIN IntLiterals
          \/ IntLiterals[env.FORECAST_DAYS] < 1
          \/ IntLiterals[env.FORECAST_DAYS] > 15

\* C2: when every required value is present and a numeric field (latitude,
\* longitude, day count) does not parse or is out of range, the run returns
\* normally with the invalid-configuration outcome, without any HTTP request
\* and without sending; it never ends in an uncontrolled fault.
C2_InvalidConfigControlled ==
    (~ConfigMissing /\ NumericInvalid /\ pc # "start") =>
        /\ pc = "done"
        /\ outcome = "SkippedInvalidConfig"
        /\ http = <<>>
        /\ sends = 0

\* the forecast fetch gave no day: the request failed, the answer had not the
\* expected shape, or the list of days was empty
FetchFailed ==
    \/ response.status # "ok"
    \/ response.body # "days"
    \/ forecast_data.tag # "list"
    \/ forecast_data.days = <<>>

\* C3: the email sender is called only after a forecast fetch that returned a
\* non-empty list of days; when the adapter fails or returns zero days no
\* icon is requested, nothing is rendered and no email is sent.
C3_SendOnlyAfterNonEmptyFetch ==
    FetchFailed =>
        /\ IconRequests = {}
        /\ html = <<>>
        /\ email_images = <<>>
        /\ sends = 0
        /\ smtp = 0
        /\ pc \notin {"icons", "send"}

\* a run has ended after a successful answer that held zero days to report
C3_Witness ==
    /\ pc = "done"
    /\ outcome = "SkippedFetchFailure"
    /\ response.status = "ok"
    /\ response.body = "days"
    /\ forecast_data.tag = "list"
    /\ forecast_data.days = <<>>
    /\ ForecastRequests # {}
    /\ sends = 0

\* the location search did not give a key: no answer, a non-2xx answer, no
\* JSON, JSON that is no object or has no (or an empty) "Key"
LookupFailed ==
    \/ lookup.status # "ok"
    \/ lookup.body # "dict"
    \/ lookup.Key = None
    \/ lookup.Key = ""

\* C4: in main the forecast request is issued only after a location search
\* that returned a key; after a failed search the forecast request is never
\* issued and no email is sent.
C4_ForecastOnlyAfterLocationKey ==
    entry = "main" =>
        /\ \A k \in ForecastRequests : k = 2 /\ http[1].kind = "location" /\ ~LookupFailed
        /\ (pc \notin {"start", "lookup"} /\ LookupFailed) =>
               /\ ForecastRequests = {}
               /\ IconRequests = {}
               /\ sends = 0
               /\ pc \in {"done", "crashed"}

\* main has ended after a location search that was answered 404
C4_Witness ==
    /\ entry = "main"
    /\ pc = "done"
    /\ outcome = "SkippedFetchFailure"
    /\ lookup.status = "http_error"
    /\ Len(http) = 1
    /\ http[1].kind = "location"

-----------------------------------------------------------------------------
(* Properties of the adapters *)

\* the days of the payload and of the result
Payload == response.days
Result == forecast_data.days

\* the epoch second of day k of the payload, whichever the provider
PayloadEpoch(k) == IF entry = "main" THEN Payload[k].EpochDate ELSE Payload[k].dt

\* the calendar day (UTC) of an epoch second
DayNumber(t) == t \div SecondsPerDay

\* a payload of dated days: a 2xx answer of the expected shape whose days all
\* carry a date (and, for OpenWeather, the keys the adapter subscripts), no
\* two of them on the same calendar day
DatedPayload ==
    /\ response.status = "ok"
    /\ response.body = "days"
    /\ \A k \in 1..Len(Payload) : PayloadEpoch(k) # Absent
    /\ \A j, k \in 1..Len(Payload) :
           j # k => DayNumber(PayloadEpoch(j)) # DayNumber(PayloadEpoch(k))
    /\ entry = "WeatherAlert" => \A k \in 1..Len(Payload) : ow_day_complete(Payload[k])

\* the days of the payload come in ascending order of date
AscendingPayload ==
    \A j, k \in 1..Len(Payload) : j < k => PayloadEpoch(j) < PayloadEpoch(k)

\* a valid payload: dated days; the `daily` array of OpenWeather is in
\* ascending order of date
ValidPayload == DatedPayload /\ (entry = "WeatherAlert" => AscendingPayload)

\* the entries of the result are on strictly ascending calendar days
StrictlyAscending ==
    \A j, k \in 1..Len(Result) :
        j < k => /\ Result[j].date_obj # Absent
                 /\ Result[k].date_obj # Absent
                 /\ DayNumber(Result[j].date_obj) < DayNumber(Result[k].date_obj)

\* C5, as claimed: for a valid payload of N days each adapter returns exactly
\* N entries in strictly ascending order of date, no two on the same date.
C5_ExactlyNDays ==
    (pc = "adapted" /\ ValidPayload) =>
        /\ forecast_data.tag = "list"
        /\ Len(Result) = Len(Payload)
        /\ StrictlyAscending

\* C5, amended: for a payload of N dated days get_weekly_weather returns the
\* entries of daily[1:8] in the order of the payload (none for N = 0, else
\* min(N, 8) - 1: today's entry and those after the eighth are left out;
\* strictly ascending when the payload is), and get_accuweather_forecast
\* returns the min(N, d) earliest days in strictly ascending order of date,
\* d being the day count of the request.
C5_SliceOfDays ==
    (pc = "adapted" /\ DatedPayload) =>
        /\ forecast_data.tag = "list"
        /\ entry = "WeatherAlert" =>
               /\ Len(Result) = IF Len(Payload) = 0 THEN 0
                                ELSE IF Len(Payload) < 8 THEN Len(Payload) - 1
                                ELSE 7
               /\ \A k \in 1..Len(Result) : Result[k].date_obj = Payload[k + 1].dt
               /\ AscendingPayload => StrictlyAscending
        /\ entry = "main" =>
               /\ Len(Result) = IF Len(Payload) < supported_days(forecast_days)
                                THEN Len(Payload) ELSE supported_days(forecast_days)
               /\ StrictlyAscending
               /\ \A k \in 1..Len(Result) :
                      Cardinality({j \in 1..Len(Payload) :
                                      Payload[j].EpochDate <= Result[k].date_obj}) = k

\* get_weekly_weather has returned 7 of the 9 days of a valid payload
C5_Witness ==
    /\ pc = "adapted"
    /\ ValidPayload
    /\ entry = "WeatherAlert"
    /\ Len(Payload) = 9
    /\ Len(Result) = 7

-----------------------------------------------------------------------------
(* Properties of the report *)

\* the OpenWeather payload is well-formed but for the humidity of its days
CompleteButHumidity ==
    /\ entry = "WeatherAlert"
    /\ response.status = "ok"
    /\ response.body = "days"
    /\ \A k \in 1..Len(Payload) : ow_day_complete([Payload[k] EXCEPT !.humidity = "50"])

\* the days of the payload that lack `humidity`
NoHumidity == {k \in 1..Len(Payload) : Payload[k].humidity = None}

\* the payload with the sentinel in the place of the missing humidity
WithSentinel ==
    [response EXCEPT !.days = [k \in 1..Len(Payload) |->
        IF k \in NoHumidity THEN [Payload[k] EXCEPT !.humidity = "N/A"] ELSE Payload[k]]]

\* C6: a day without `humidity` does not make the adapter fail: the whole
\* sequence is returned, that day's humidity is "N/A", the other entries are
\* what they are with the field present, and the email is still sent.
C6_MissingHumidityIsSentinel ==
    (CompleteButHumidity /\ Cardinality(NoHumidity) = 1 /\ Len(Payload) >= 2
        /\ pc \notin {"start", "forecast"}) =>
        /\ forecast_data = get_weekly_weather(WithSentinel)
        /\ pc = "done" => sends = 1

\* the report is complete: the email is about to be, or has been, handed over
Rendered == pc = "send" \/ (pc = "done" /\ sends > 0)

\* the detail (day-forecast) section of day k and, in main, its summary entry
DetailSection(k) == IF entry = "main" THEN html[Len(Result) + k] ELSE html[k]
SummarySection(k) == html[k]

\* day k has an icon reference
HasIcon(k) == IF entry = "main" THEN Result[k].icon # Absent ELSE Result[k].icon # None

\* the icon reference of day k as it occurs in the icon URL
IconRef(k) == IF entry = "main" THEN icon_code_str(Result[k]) ELSE Result[k].icon

\* the answers of the icon endpoint that day k's icon got: in main the one
\* answer for its reference, in WeatherAlert the answer to the day's own request
AnswersFor(k) ==
    {icon_log[j].answer : j \in {j \in 1..Len(icon_log) :
        IF entry = "main" THEN icon_log[j].ref = IconRef(k) ELSE icon_log[j].day = k}}

\* the number of entries of email_images under content-id c
CountCid(c) == Cardinality({k \in 1..Len(email_images) : email_images[k].cid = c})

\* C7, as claimed: for one report the icon endpoint is requested at most once
\* per distinct icon reference.
C7_OneRequestPerIcon ==
    \A a, b \in IconRequests : http[a].url = http[b].url => a = b

\* C7, amended: main requests the icon endpoint at most once per distinct icon
\* reference, whether the first request succeeded or failed (exactly once per
\* reference met so far, none while the detail sections are built);
\* WeatherAlert, which keeps no cache, requests it once per forecast day.
C7_OneRequestPerIconInMain ==
    pc \in {"icons", "send", "done"} /\ result_truthy(forecast_data) =>
        LET seen == {k \in 1..Len(Result) : k < i}
        IN  /\ entry = "main" =>
                /\ \A a, b \in IconRequests : http[a].url = http[b].url => a = b
                /\ Cardinality(IconRequests)
                       = Cardinality({IconRef(k) : k \in {k \in seen : HasIcon(k)}})
            /\ entry = "WeatherAlert" =>
                /\ Cardinality(IconRequests) = Cardinality(seen)
                /\ \A k \in seen : icon_log[k].ref = IconRef(k) /\ icon_log[k].day = k

\* main has sent a report of several days that share one icon whose only
\* request failed
C7_Witness ==
    /\ entry = "main"
    /\ pc = "done"
    /\ sends = 1
    /\ Len(Result) >= 2
    /\ \A k \in 1..Len(Result) : HasIcon(k) /\ IconRef(k) = IconRef(1)
    /\ Cardinality(IconRequests) = 1
    /\ icon_log[1].answer.status # "ok"

\* the content-id under which the code embeds the icon of day k
CidOf(k) == IF entry = "main" THEN main_cid(Result[k]) ELSE WeatherAlert_cid(Result[k])

\* C8, as claimed: two days share an icon reference that is fetched
\* successfully: embedded_images holds exactly one entry for that reference
\* and the cid: references of the two days name the same content-id.
C8_OneImagePerSharedIcon ==
    Rendered =>
        \A a, b \in 1..Len(Result) :
            (/\ a < b
             /\ HasIcon(a) /\ HasIcon(b) /\ IconRef(a) = IconRef(b)
             /\ \A r \in AnswersFor(a) \cup AnswersFor(b) : r.status = "ok") =>
                /\ Cardinality({k \in 1..Len(email_images) :
                       \E d \in 1..Len(Result) :
                           /\ HasIcon(d) /\ IconRef(d) = IconRef(a)
                           /\ email_images[k].cid = CidOf(d)}) = 1
                /\ DetailSection(a).cid # ""
                /\ DetailSection(a).cid = DetailSection(b).cid

\* C8, amended: two days of different dates share an icon reference that is
\* fetched successfully with a non-empty body: embedded_images holds an entry
\* for each of the two days, under two different content-ids (in main exactly
\* one entry under each), and the cid: references of each day (summary entry
\* and detail section) name that day's own content-id.
C8_OneImagePerDayOfSharedIcon ==
    Rendered =>
        \A a, b \in 1..Len(Result) :
            (/\ a < b
             /\ HasIcon(a) /\ HasIcon(b) /\ IconRef(a) = IconRef(b)
             /\ Result[a].date_str # Result[b].date_str
             /\ \A r \in AnswersFor(a) \cup AnswersFor(b) :
                    r.status = "ok" /\ r.content # "") =>
                /\ DetailSection(a).cid # ""
                /\ DetailSection(b).cid # ""
                /\ DetailSection(a).cid # DetailSection(b).cid
                /\ CountCid(DetailSection(a).cid) >= 1
                /\ CountCid(DetailSection(b).cid) >= 1
                /\ entry = "main" =>
                       /\ CountCid(DetailSection(a).cid) = 1
                       /\ CountCid(DetailSection(b).cid) = 1
                       /\ SummarySection(a).cid = DetailSection(a).cid
                       /\ SummarySection(b).cid = DetailSection(b).cid

\* main has sent a report of two days of different dates that share an icon,
\* fetched once, with two embedded images
C8_Witness ==
    /\ entry = "main"
    /\ pc = "done"
    /\ outcome = "Sent"
    /\ Len(Result) = 2
    /\ HasIcon(1) /\ HasIcon(2) /\ IconRef(1) = IconRef(2)
    /\ Result[1].date_str # Result[2].date_str
    /\ Cardinality(IconRequests) = 1
    /\ icon_log[1].answer = [status |-> "ok", content |-> "PNG"]
    /\ Len(email_images) = 2

\* C9: when the email is handed to the sender the list of embedded images
\* holds no two entries with the same content-id and no entry for an icon
\* whose fetch failed.
C9_ImagesDistinctAndFetched ==
    Rendered =>
        /\ \A j, k \in 1..Len(email_images) :
               email_images[j].cid = email_images[k].cid => j = k
        /\ \A k \in 1..Len(Result) :
               (HasIcon(k) /\ \A r \in AnswersFor(k) : r.status # "ok") =>
                   CountCid(CidOf(k)) = 0

\* C10: an icon fetch failure never aborts the run: the report of a non-empty
\* forecast has one section per day, a day whose icon request failed shows the
\* text fallback, a day whose icon was fetched shows its image, and the email
\* sender is called exactly once.
C10_IconFailureDegrades ==
    (pc = "done" /\ result_truthy(forecast_data)) =>
        /\ sends = 1
        /\ Cardinality({k \in 1..Len(html) : html[k].section = "detail"}) = Len(Result)
        /\ \A k \in 1..Len(Result) :
               /\ DetailSection(k).section = "detail"
               /\ DetailSection(k).date_str = Result[k].date_str
               /\ (HasIcon(k) /\ \A r \in AnswersFor(k) : r.status # "ok") =>
                      DetailSection(k).cid = ""
               /\ (HasIcon(k) /\ \A r \in AnswersFor(k) : r.status = "ok") =>
                      /\ DetailSection(k).cid # ""
                      /\ CountCid(DetailSection(k).cid) >= 1

-----------------------------------------------------------------------------
(* Properties of the day count *)

\* the day counts of the provider's forecast endpoints
SupportedDayCounts == {1, 5, 10, 15}

Distance(a, b) == IF a < b THEN b - a ELSE a - b

\* the forecast request of get_accuweather_forecast asks for d days
RequestsDays(d) ==
    /\ ForecastRequests # {}
    /\ \A k \in ForecastRequests :
           http[k].url = "/forecasts/v1/daily/" \o ToString(d) \o "day/" \o location_key

\* the warning of an unsupported day count is in the log
DaysWarned ==
    \E k \in 1..Len(log) : log[k] = Warning("Unsupported number of forecast days requested")

\* C11, as claimed: when the day count passed to get_accuweather_forecast is
\* not one of 1, 5, 10, 15 the request uses the supported value nearest to it
\* and a warning is logged.
C11_NearestSupportedDays ==
    (pc = "adapted" /\ entry = "main" /\ forecast_days \notin SupportedDayCounts) =>
        /\ \E d \in SupportedDayCounts :
               /\ RequestsDays(d)
               /\ \A e \in SupportedDayCounts :
                      Distance(d, forecast_days) <= Distance(e, forecast_days)
        /\ DaysWarned

\* C11, amended: when the day count passed to get_accuweather_forecast is not
\* one of 1, 5, 10, 15 the request uses 5, whatever the requested value, and a
\* warning is logged; a supported day count is used as it is, without warning.
C11_UnsupportedDaysDefaultToFive ==
    (pc = "adapted" /\ entry = "main") =>
        IF forecast_days \in SupportedDayCounts
        THEN RequestsDays(forecast_days) /\ ~DaysWarned
        ELSE RequestsDays(5) /\ DaysWarned

\* get_accuweather_forecast was asked for 14 days and has requested 5
C11_Witness ==
    /\ pc = "adapted"
    /\ entry = "main"
    /\ forecast_days = 14
    /\ RequestsDays(5)
    /\ DaysWarned
    /\ Len(Payload) >= 5
    /\ Len(Result) = 5

-----------------------------------------------------------------------------
(* Properties of get_wind_direction *)

\* n / d (d > 0) rounded to the nearest integer, a tie to the even one (round())
Rounded(n, d) ==
    LET q == n \div d
        r == n % d
    IN  IF 2 * r < d THEN q
        ELSE IF 2 * r > d THEN q + 1
        ELSE IF q % 2 = 0 THEN q ELSE q + 1

\* n / d (d > 0) with its fraction dropped
Truncated(n, d) == IF n >= 0 THEN n \div d ELSE -((-n) \div d)

\* the label of the 16-label table at index k mod 16
Label(k) == directions[(k % 16) + 1]

\* the string is one that int() parses
NumericString == degrees.kind = "str" /\ degrees.value \in DOMAIN IntLiterals

\* C12, as claimed: for a numeric degree value d get_wind_direction returns
\* the label at index round((d + 11.25) / 22.5) mod 16; for None or a
\* non-numeric value it returns "N/A".
C12_RoundedIndex ==
    pc = "wind_done" =>
        /\ degrees.kind = "number" =>
               wind_direction = Label(Rounded(degrees.value + 1125, 2250))
        /\ (degrees.kind = "None" \/ (degrees.kind = "str" /\ ~NumericString)) =>
               wind_direction = "N/A"

\* C12, amended: for a numeric degree value d get_wind_direction returns the
\* label at index int((d + 11.25) / 22.5) mod 16, int() dropping the fraction
\* (toward zero, for negative values too); in weather_notifier.py d is first
\* replaced by int(d), so the fraction of d is dropped and a numeric string
\* is parsed; for None, for a non-numeric string and, in function_app.py,
\* for every string it returns "N/A".
C12_TruncatedIndex ==
    pc = "wind_done" =>
        /\ degrees.kind = "number" =>
               wind_direction =
                   Label(Truncated((IF entry = "main"
                                    THEN 100 * Truncated(degrees.value, 100)
                                    ELSE degrees.value) + 1125, 2250))
        /\ degrees.kind = "None" => wind_direction = "N/A"
        /\ degrees.kind = "str" =>
               wind_direction =
                   IF entry = "main" /\ NumericString
                   THEN Label(Truncated(100 * IntLiterals[degrees.value] + 1125, 2250))
                   ELSE "N/A"

\* get_wind_direction(10) has returned "N", where the rounded index names "NNE"
C12_Witness ==
    /\ pc = "wind_done"
    /\ degrees = [kind |-> "number", value |-> 1000]
    /\ wind_direction = "N"
    /\ Label(Rounded(degrees.value + 1125, 2250)) = "NNE"

\* C13: get_wind_direction is periodic with period 360: for every integer
\* degree value d, negative values included, get_wind_direction(d) equals
\* get_wind_direction(d + 360); get_wind_direction(None) is "N/A".
C13_Periodic ==
    pc = "wind_done" =>
        /\ (degrees.kind = "number" /\ degrees.value % 100 = 0) =>
               wind_direction
                   = get_wind_direction(entry, [degrees EXCEPT !.value = @ + 36000])
        /\ degrees.kind = "None" => wind_direction = "N/A"

-----------------------------------------------------------------------------
(* Properties of the sunrise and sunset fields *)

\* the sunrise / sunset of day k of the payload is missing or malformed
BadRise(k) ==
    IF entry = "main" THEN Payload[k].Rise \notin DOMAIN IsoLiterals
    ELSE Payload[k].sunrise = Absent
BadSet(k) ==
    IF entry = "main" THEN Payload[k].Set \notin DOMAIN IsoLiterals
    ELSE Payload[k].sunset = Absent

\* the payload with well-formed values in the place of those
Repaired ==
    [response EXCEPT !.days = [k \in 1..Len(Payload) |->
        IF entry = "main"
        THEN [Payload[k] EXCEPT
                 !.Rise = IF BadRise(k) THEN "2024-05-01T05:30:00+01:00" ELSE @,
                 !.Set = IF BadSet(k) THEN "2024-05-01T20:15:00+01:00" ELSE @]
        ELSE [Payload[k] EXCEPT
                 !.sunrise = IF BadRise(k) THEN 19800 ELSE @,
                 !.sunset = IF BadSet(k) THEN 70200 ELSE @]]]

\* what the adapter returns for the repaired payload
RepairedResult ==
    IF entry = "main" THEN get_accuweather_forecast(Repaired, forecast_days).days
    ELSE get_weekly_weather(Repaired).days

\* the day of the payload that entry k of the repaired result is made from
SourceDay(k) == CHOOSE j \in 1..Len(Payload) : PayloadEpoch(j) = RepairedResult[k].date_obj

\* a payload of dated days that is well-formed but for sunrise and sunset
SunPayload ==
    /\ response.status = "ok"
    /\ response.body = "days"
    /\ \A k \in 1..Len(Payload) : PayloadEpoch(k) # Absent
    /\ \A j, k \in 1..Len(Payload) : j # k => PayloadEpoch(j) # PayloadEpoch(k)
    /\ entry = "WeatherAlert" =>
           \A k \in 1..Len(Payload) : Payload[k].icon # None /\ Payload[k].humidity # None
    /\ \E k \in 1..Len(Payload) : BadRise(k) \/ BadSet(k)

\* C14: a malformed or missing sunrise or sunset in one day of the payload
\* yields "N/A" for that field only: the adapter returns the whole sequence,
\* and the other of the two fields and every other field of the day are what
\* they are for a well-formed value.
C14_SunSentinelPerField ==
    (pc = "adapted" /\ SunPayload) =>
        forecast_data = ListResult([k \in 1..Len(RepairedResult) |->
            [RepairedResult[k] EXCEPT
                !.sunrise = IF BadRise(SourceDay(k)) THEN "N/A" ELSE @,
                !.sunset = IF BadSet(SourceDay(k)) THEN "N/A" ELSE @]])

-----------------------------------------------------------------------------
(* Properties of the send *)

\* the errors that the except clauses of send_email_with_images log
SendErrors ==
    {Error("Error sending email: SMTP Authentication failed"),
     Error("Error sending email: SMTP error"),
     Error("Error sending email: Unexpected error")}

\* C15: in every run the email transport is invoked at most once; when it
\* raises (authentication error, SMTP error, any other exception) the failure
\* is logged, the send is not retried and the run returns normally: no
\* exception leaves the run after the sender was called.
C15_SingleSendNoRetry ==
    /\ sends <= 1
    /\ smtp <= sends
    /\ sends = 1 =>
           /\ pc = "done"
           /\ outcome \in {"Sent", "SendFailed"}
           /\ outcome = "Sent" => smtp = 1 /\ \A k \in 1..Len(log) : log[k] \notin SendErrors
           /\ outcome = "SendFailed" =>
                  /\ Len(log) > 0
                  /\ log[Len(log)] \in SendErrors
                  /\ Cardinality({k \in 1..Len(log) : log[k] \in SendErrors}) = 1
    /\ outcome \in {"Sent", "SendFailed"} => sends = 1

\* main has returned after the one SMTP session failed at the login, and the
\* failure is the last record of the log
C15_Witness ==
    /\ entry = "main"
    /\ pc = "done"
    /\ outcome = "SendFailed"
    /\ sends = 1
    /\ smtp = 1
    /\ log[Len(log)] = Error("Error sending email: SMTP Authentication failed")

-----------------------------------------------------------------------------
(* Properties of the content-ids of main *)

\* C16: in the report built by main the body and embedded_images agree in
\* both directions, for every forecast and every answer of the icon endpoint
\* (a 2xx answer with an empty body included): every cid: reference of the
\* summary strip and of the detail sections names a content-id that has an
\* entry in embedded_images, the summary entry and the detail section of a
\* day name the same content-id, and every entry of embedded_images is
\* referenced from the body.
C16_BodyAndImagesAgree ==
    (Rendered /\ entry = "main") =>
        /\ Len(html) = 2 * Len(Result)
        /\ \A k \in 1..Len(html) : html[k].cid # "" => CountCid(html[k].cid) >= 1
        /\ \A k \in 1..Len(Result) : SummarySection(k).cid = DetailSection(k).cid
        /\ \A j \in 1..Len(email_images) :
               \E k \in 1..Len(html) : html[k].cid = email_images[j].cid

====
